---- MODULE Spec2Model ----
(***************************************************************************)
(* The QuickSight resources of the Terraform AWS provider:                 *)
(*   - the data source (aws/resource_aws_quicksight_data_source.go): its   *)
(*     operations Create, Read, Update and Delete, and the status poll     *)
(*     Read runs through resource.Retry;                                   *)
(*   - the group operations Read, Update and Delete that                   *)
(*     aws/resource_aws_quicksight_template.go holds;                      *)
(*   - the resource IDs: how they are made and how the ParseID functions   *)
(*     take them apart.                                                    *)
(*                                                                         *)
(* Strings that the code takes apart (resource IDs) are sequences of       *)
(* one-character strings.  Time is counted in ticks of ten seconds.        *)
(* resource.Retry is the helper of terraform-plugin-sdk                    *)
(* (helper/resource, wait.go and state.go): it calls the function it is    *)
(* given, sleeps a backoff interval after a retryable answer, stops at the *)
(* first success or non-retryable answer, and has a timer for the timeout  *)
(* that runs beside the calls; on timeout it gives a call in flight a      *)
(* grace period to come back, and in every case it returns the error of    *)
(* the last call that came back.                                           *)
(*                                                                         *)
(* d.Get of the same SDK (helper/schema) gives, for an attribute the       *)
(* schema declares as TypeList, a []interface{}, set or not.  The helpers  *)
(* Create and Update call first assert *schema.Set on such a value without *)
(* the ", ok" form, which panics: Create and Update end there.  What they  *)
(* would do next is kept in the model as the branch not taken.             *)
(***************************************************************************)
EXTENDS Naturals, Sequences, FiniteSets

VARIABLES
    pc,         \* position of the operation called, and of the Read it calls
    dId,        \* d.Id()
    attrs,      \* the attributes Read writes with d.Set: arn, id, aws_account_id
    resp,       \* the variable resp of Read's own scope (line 604)
    lastResp,   \* the closure's resp: what the last fetch that came back returned
    lastErr,    \* the closure's err of that fetch
    class,      \* what the closure returned for it: "none", "success", "retryable", "nonretryable"
    err,        \* Read's err: the error resource.Retry has for the last call
    timedOut,   \* resource.Retry ended on its timeout
    clock,      \* ticks since resource.Retry was called
    fetches,    \* DescribeDataSource calls made by this invocation
    ret,        \* what the operation returned, once it has
    op,         \* the operation the framework called on the resource
    sent,       \* the requests made other than the poll's DescribeDataSource, each with its answer
    descOpts,   \* Read's descOpts: the request of the poll
    invocation, \* how many operations the framework has called on the resource, this one included
    cpc,        \* position of a function run on its own: "off"; "segs", "id", "decoded" (the ID codec);
                \* <<resource, step>> (the ID a Create stores); "params", "built" (the parameters helper)
    cSegs,      \* the segments joined into cId, <<>> when cId was not made by joining
    cId,        \* the ID string given to the parse functions
    cOut,       \* what each parse function returned for cId
    cfg,        \* the configuration Create is called with: the attributes and the parameter groups it sets
    built       \* what the parameters helper, run on its own, returned for cfg

handlerVars ==
    <<pc, dId, attrs, resp, lastResp, lastErr, class, err, timedOut, clock, fetches, ret,
      op, sent, descOpts, invocation>>

codecVars == <<cpc, cSegs, cId, cOut, cfg, built>>

vars == <<handlerVars, codecVars>>

(***************************************************************************)
(* Bounds of the model.                                                    *)
(***************************************************************************)
\* longest backoff interval between two fetches, in ticks
MaxBackoff == 1
\* longest time one DescribeDataSource call takes, in ticks
MaxFetchTime == 3
\* the helper's grace period for a call in flight at the timeout, in ticks
\* (30 seconds)
GracePeriod == 3

\* most operations called one after the other on one resource
MaxInvocations == 2
\* longest ID string given to the parse functions on their own
MaxIdLen == 6
\* longest segment joined into an ID
MaxSegLen == 2

\* longest "id" of a data source configuration tried
MaxCfgIdLen == 2

\* 5*time.Minute, in ticks of ten seconds
Timeout == 30

(***************************************************************************)
(* Resource IDs.                                                           *)
(***************************************************************************)
\* the IDs tried: a well-formed one, and malformed ones (empty, no "/", an
\* empty account id, an empty data source id)
Ids ==
    { <<"1", "/", "d">>,
      <<>>, <<"1">>, <<"1", "d">>, <<"/">>, <<"1", "/">>, <<"/", "d">>, <<"/", "/">> }

\* index of the first "/" of s, 0 when there is none
FirstSlash(s) ==
    IF \E i \in 1..Len(s) : s[i] = "/"
    THEN CHOOSE i \in 1..Len(s) : s[i] = "/" /\ \A j \in 1..(i - 1) : s[j] # "/"
    ELSE 0

\* SplitN2 with the "/" left at the head of the second part
SplitN2_KeepsSlash(s) ==
    IF FirstSlash(s) = 0 THEN <<s>>
    ELSE <<SubSeq(s, 1, FirstSlash(s) - 1), SubSeq(s, FirstSlash(s), Len(s))>>

\* strings.SplitN(id, "/", 2)
SplitN2(s) ==
    IF FirstSlash(s) = 0 THEN <<s>>
    ELSE <<SubSeq(s, 1, FirstSlash(s) - 1), SubSeq(s, FirstSlash(s) + 1, Len(s))>>

(***************************************************************************)
(* Errors.  An error is a record of the code of an AWS error ("" for an    *)
(* error made with fmt.Errorf), its message and the values formatted into  *)
(* it.                                                                     *)
(***************************************************************************)
NoErr == [code |-> "", msg |-> "", id |-> <<>>, detail |-> ""]

ErrCodeResourceNotFoundException == "ResourceNotFoundException"

AwsErr(code) == [code |-> code, msg |-> "aws", id |-> <<>>, detail |-> ""]

FetchErrors == {AwsErr(ErrCodeResourceNotFoundException), AwsErr("InternalFailureException")}

ErrFormat(id) ==
    [code |-> "", msg |-> "unexpected format of ID, expected AWS_ACCOUNT_ID/DATA_SOURCE_ID",
     id |-> id, detail |-> ""]

ErrInProgress(id, status) ==
    [code |-> "", msg |-> "Data Source operation still in progress", id |-> id, detail |-> status]

ErrFailed(id, status) ==
    [code |-> "", msg |-> "Data Source operation failed", id |-> id, detail |-> status]

\* the helper's own error for a timeout before any call came back
ErrTimeout == [code |-> "", msg |-> "timeout while waiting for state to become 'success'", id |-> <<>>, detail |-> ""]

\* ErrDescribing with the cause left out of the message
ErrDescribing_NoCause(id, e) ==
    [wrap |-> "Error describing QuickSight Data Source", id |-> id, cause |-> NoErr]

\* fmt.Errorf("Error describing QuickSight Data Source (%s): %s", d.Id(), err)
ErrDescribing(id, e) ==
    [wrap |-> "Error describing QuickSight Data Source", id |-> id, cause |-> e]

\* IsNotFound with the not-found check never matching
IsNotFound_NeverMatches(e) == FALSE

\* isAWSErr(err, quicksight.ErrCodeResourceNotFoundException, "")
IsNotFound(e) == e.code = ErrCodeResourceNotFoundException

\* ParseID without the check of the data source id
ParseID_IdUnchecked(id) ==
    LET parts == SplitN2(id) IN
    IF Len(parts) < 2 \/ parts[1] = <<>>
    THEN [awsAccountId |-> <<>>, dataSourceId |-> <<>>, err |-> ErrFormat(id)]
    ELSE [awsAccountId |-> parts[1], dataSourceId |-> parts[2], err |-> NoErr]

\* resourceAwsQuickSightDataSourceParseID
ParseID(id) ==
    LET parts == SplitN2(id) IN
    IF Len(parts) < 2 \/ parts[1] = <<>> \/ parts[2] = <<>>
    THEN [awsAccountId |-> <<>>, dataSourceId |-> <<>>, err |-> ErrFormat(id)]
    ELSE [awsAccountId |-> parts[1], dataSourceId |-> parts[2], err |-> NoErr]

(***************************************************************************)
(* The ID codec of the group resource (resource_aws_quicksight_template.go, *)
(* which holds the template resource and, from line 342, the group         *)
(* resource), and the making of IDs with fmt.Sprintf.                      *)
(***************************************************************************)
\* fmt.Sprintf("%s/%s", awsAccountId, id)
DataSourceIdOf(awsAccountId, id) == awsAccountId \o <<"/">> \o id

\* fmt.Sprintf("%s/%s/%s", awsAccountID, namespace, groupName)
GroupIdOf(awsAccountID, namespace, groupName) ==
    awsAccountID \o <<"/">> \o namespace \o <<"/">> \o groupName

\* strings.SplitN(id, "/", 3)
SplitN3(s) ==
    IF FirstSlash(s) = 0 THEN <<s>>
    ELSE <<SubSeq(s, 1, FirstSlash(s) - 1)>> \o SplitN2(SubSeq(s, FirstSlash(s) + 1, Len(s)))

ErrGroupFormat(id) ==
    [code |-> "", msg |-> "unexpected format of ID, expected AWS_ACCOUNT_ID/NAMESPACE/GROUP_NAME",
     id |-> id, detail |-> ""]

\* GroupParseID without the check of the group name
GroupParseID_NameUnchecked(id) ==
    LET parts == SplitN3(id) IN
    IF Len(parts) < 3 \/ parts[1] = <<>> \/ parts[2] = <<>>
    THEN [awsAccountID |-> <<>>, namespace |-> <<>>, groupName |-> <<>>, err |-> ErrGroupFormat(id)]
    ELSE [awsAccountID |-> parts[1], namespace |-> parts[2], groupName |-> parts[3], err |-> NoErr]

\* resourceAwsQuickSightGroupParseID
GroupParseID(id) ==
    LET parts == SplitN3(id) IN
    IF Len(parts) < 3 \/ parts[1] = <<>> \/ parts[2] = <<>> \/ parts[3] = <<>>
    THEN [awsAccountID |-> <<>>, namespace |-> <<>>, groupName |-> <<>>, err |-> ErrGroupFormat(id)]
    ELSE [awsAccountID |-> parts[1], namespace |-> parts[2], groupName |-> parts[3], err |-> NoErr]

\* resourceAwsQuickSightTemplateParseID
TemplateParseID(id) ==
    LET parts == SplitN3(id) IN
    IF Len(parts) < 3 \/ parts[1] = <<>> \/ parts[2] = <<>> \/ parts[3] = <<>>
    THEN [awsAccountID |-> <<>>, namespace |-> <<>>, groupName |-> <<>>, err |-> ErrGroupFormat(id)]
    ELSE [awsAccountID |-> parts[1], namespace |-> parts[2], groupName |-> parts[3], err |-> NoErr]

(***************************************************************************)
(* The remote service.                                                     *)
(***************************************************************************)
InProgressStatuses == {"CREATION_IN_PROGRESS", "UPDATE_IN_PROGRESS"}
FailedStatuses == {"CREATION_FAILED", "UPDATE_FAILED"}
StableStatuses == {"CREATION_SUCCESSFUL", "UPDATE_SUCCESSFUL", "DELETED"}
Statuses == InProgressStatuses \cup FailedStatuses \cup StableStatuses

Arns == {"arn1", "arn2"}

\* a nil *DescribeDataSourceOutput
NilResp == [nil |-> TRUE, hasDataSource |-> FALSE, Status |-> "", Arn |-> "", DataSourceId |-> <<>>]
\* an output whose DataSource is nil
EmptyResp == [nil |-> FALSE, hasDataSource |-> FALSE, Status |-> "", Arn |-> "", DataSourceId |-> <<>>]

DataSourceResp(status, arn, id) ==
    [nil |-> FALSE, hasDataSource |-> TRUE, Status |-> status, Arn |-> arn, DataSourceId |-> id]

\* What conn.DescribeDataSource(descOpts) gives back: the described data source
\* and no error, or an error and no data source.
FetchResults(dataSourceId) ==
    {<<DataSourceResp(s, a, dataSourceId), NoErr>> : s \in Statuses, a \in Arns}
    \cup {<<r, e>> : r \in {NilResp, EmptyResp}, e \in FetchErrors}

(***************************************************************************)
(* The function Read hands to resource.Retry (lines 605-625): what it      *)
(* returns for one answer of DescribeDataSource.                           *)
(***************************************************************************)
\* RetryFunc retrying CREATION_IN_PROGRESS only
RetryFunc_OnlyCreationInProgress(id, r, e) ==
    IF ~r.nil /\ r.hasDataSource /\ r.Status = "CREATION_IN_PROGRESS"
    THEN [class |-> "retryable", err |-> ErrInProgress(id, r.Status)]
    ELSE IF ~r.nil /\ r.hasDataSource /\ r.Status \in FailedStatuses
    THEN [class |-> "nonretryable", err |-> ErrFailed(id, r.Status)]
    ELSE IF e # NoErr
    THEN [class |-> "nonretryable", err |-> e]
    ELSE [class |-> "success", err |-> NoErr]

\* RetryFunc with the failed statuses returned as retryable errors
RetryFunc_FailedIsRetryable(id, r, e) ==
    IF ~r.nil /\ r.hasDataSource /\ r.Status \in InProgressStatuses
    THEN [class |-> "retryable", err |-> ErrInProgress(id, r.Status)]
    ELSE IF ~r.nil /\ r.hasDataSource /\ r.Status \in FailedStatuses
    THEN [class |-> "retryable", err |-> ErrFailed(id, r.Status)]
    ELSE IF e # NoErr
    THEN [class |-> "nonretryable", err |-> e]
    ELSE [class |-> "success", err |-> NoErr]

\* RetryFunc without the check of UPDATE_FAILED
RetryFunc_UpdateFailedUnchecked(id, r, e) ==
    IF ~r.nil /\ r.hasDataSource /\ r.Status \in InProgressStatuses
    THEN [class |-> "retryable", err |-> ErrInProgress(id, r.Status)]
    ELSE IF ~r.nil /\ r.hasDataSource /\ r.Status = "CREATION_FAILED"
    THEN [class |-> "nonretryable", err |-> ErrFailed(id, r.Status)]
    ELSE IF e # NoErr
    THEN [class |-> "nonretryable", err |-> e]
    ELSE [class |-> "success", err |-> NoErr]

\* RetryFunc with a fetch error returned as a retryable error
RetryFunc_ErrorIsRetryable(id, r, e) ==
    IF ~r.nil /\ r.hasDataSource /\ r.Status \in InProgressStatuses
    THEN [class |-> "retryable", err |-> ErrInProgress(id, r.Status)]
    ELSE IF ~r.nil /\ r.hasDataSource /\ r.Status \in FailedStatuses
    THEN [class |-> "nonretryable", err |-> ErrFailed(id, r.Status)]
    ELSE IF e # NoErr
    THEN [class |-> "retryable", err |-> e]
    ELSE [class |-> "success", err |-> NoErr]

\* RetryFunc retrying until the status is CREATION_SUCCESSFUL
RetryFunc_WaitsForCreationSuccessful(id, r, e) ==
    IF ~r.nil /\ r.hasDataSource /\ r.Status \in FailedStatuses
    THEN [class |-> "nonretryable", err |-> ErrFailed(id, r.Status)]
    ELSE IF ~r.nil /\ r.hasDataSource /\ r.Status # "CREATION_SUCCESSFUL"
    THEN [class |-> "retryable", err |-> ErrInProgress(id, r.Status)]
    ELSE IF e # NoErr
    THEN [class |-> "nonretryable", err |-> e]
    ELSE [class |-> "success", err |-> NoErr]

\* RetryFunc with the status DELETED returned as a retryable error
RetryFunc_DeletedIsRetryable(id, r, e) ==
    IF ~r.nil /\ r.hasDataSource /\ r.Status \in InProgressStatuses \cup {"DELETED"}
    THEN [class |-> "retryable", err |-> ErrInProgress(id, r.Status)]
    ELSE IF ~r.nil /\ r.hasDataSource /\ r.Status \in FailedStatuses
    THEN [class |-> "nonretryable", err |-> ErrFailed(id, r.Status)]
    ELSE IF e # NoErr
    THEN [class |-> "nonretryable", err |-> e]
    ELSE [class |-> "success", err |-> NoErr]

\* RetryFunc looking at the error of the call before the status
RetryFunc_ErrorFirst(id, r, e) ==
    IF e # NoErr
    THEN [class |-> "nonretryable", err |-> e]
    ELSE IF ~r.nil /\ r.hasDataSource /\ r.Status \in InProgressStatuses
    THEN [class |-> "retryable", err |-> ErrInProgress(id, r.Status)]
    ELSE IF ~r.nil /\ r.hasDataSource /\ r.Status \in FailedStatuses
    THEN [class |-> "nonretryable", err |-> ErrFailed(id, r.Status)]
    ELSE [class |-> "success", err |-> NoErr]

RetryFunc(id, r, e) ==
    IF ~r.nil /\ r.hasDataSource /\ r.Status \in InProgressStatuses
    THEN [class |-> "retryable", err |-> ErrInProgress(id, r.Status)]
    ELSE IF ~r.nil /\ r.hasDataSource /\ r.Status \in FailedStatuses
    THEN [class |-> "nonretryable", err |-> ErrFailed(id, r.Status)]
    ELSE IF e # NoErr
    THEN [class |-> "nonretryable", err |-> e]
    ELSE [class |-> "success", err |-> NoErr]

\* The closure declares a resp of its own (resp, err := ...): Read's resp is
\* not assigned by a fetch.
RespAfterFetch(outer, fetched) == outer

(***************************************************************************)
(* The operations of the two resources, and the requests they make.        *)
(***************************************************************************)
DataSourceOps == {"Create", "Read", "Update", "Delete"}
GroupOps == {"GroupRead", "GroupUpdate", "GroupDelete"}

\* the IDs tried on the group operations: a well-formed one, one whose group
\* name has a "/", and malformed ones
GroupIds ==
    { <<"1", "/", "n", "/", "g">>, <<"1", "/", "n", "/", "g", "/", "h">>,
      <<>>, <<"1", "/", "n">>, <<"1", "/", "/", "g">>, <<"/", "n", "/", "g">>,
      <<"1", "/", "n", "/">> }

\* what a call other than DescribeDataSource comes back with: no error, or an error
CallAnswers == {NoErr} \cup FetchErrors

\* a request made, with the error it was answered with
Req(api, awsAccountId, id, e) == [api |-> api, AwsAccountId |-> awsAccountId, Id |-> id, err |-> e]

\* fmt.Errorf("<msg> %s: %s", d.Id(), err), and without the ID with id = <<>>
ErrWrap(msg, id, e) == [wrap |-> msg, id |-> id, cause |-> e]

\* the type the schema declares for the attribute "credentials"
CredentialsType == "TypeList"

\* resourceAwsQuickSightDataSourceCredentials, lines 909-910: d.Get gives a
\* []interface{} for an attribute of TypeList, never nil, and the assertion
\* v.(*schema.Set) of such a value panics
CredentialsPanics == CredentialsType # "TypeSet"

(***************************************************************************)
(* The configuration of a data source and the parameters helper,           *)
(* resourceAwsQuickSightDataSourceParameters, lines 937-1177.              *)
(***************************************************************************)
\* the attributes of the schema a configuration sets and a create request
\* could carry (id and aws_account_id are the request's ids)
RequiredAttributes == {"name", "parameters"}
OptionalAttributes ==
    {"credentials", "permission", "ssl_properties", "tags", "vpc_connection_properties"}

\* the groups of the parameters block, in the order the helper looks at them
ParameterGroups ==
    << "amazon_elasticsearch", "athena", "aurora", "aurora_postgre_sql",
       "aws_iot_analytics", "jira", "maria_db", "mysql", "postgresql", "presto",
       "redshift", "s3", "service_now", "snowflake", "spark", "sql_server",
       "teradata", "twitter" >>

\* the constant the helper assigns to dataSourceType for each group
DataSourceTypeOf ==
    [ amazon_elasticsearch |-> "DataSourceTypeAmazonElasticsearch",
      athena |-> "DataSourceTypeAthena",
      aurora |-> "DataSourceTypeAurora",
      aurora_postgre_sql |-> "DataSourceTypeAuroraPostgresql",
      aws_iot_analytics |-> "DataSourceTypeAwsIotAnalytics",
      jira |-> "DataSourceTypeJira",
      maria_db |-> "DataSourceTypeMariadb",
      mysql |-> "DataSourceTypeMysql",
      postgresql |-> "DataSourceTypePostgresql",
      presto |-> "DataSourceTypePresto",
      redshift |-> "DataSourceTypeRedshift",
      s3 |-> "DataSourceTypeS3",
      service_now |-> "DataSourceTypeServicenow",
      snowflake |-> "DataSourceTypeSnowflake",
      spark |-> "DataSourceTypeSpark",
      sql_server |-> "DataSourceTypeSqlserver",
      teradata |-> "DataSourceTypeTeradata",
      twitter |-> "DataSourceTypeTwitter" ]

\* no configuration: the operation is not Create
NoCfg == [attributes |-> {}, groups |-> {}]

\* most parameter groups set in one configuration
MaxGroups == 2

\* the schema type of "parameters", line 82
ParametersType == "TypeList"

\* line 939: the same assertion v.(*schema.Set) on the []interface{} that
\* d.Get gives for an attribute of TypeList
ParametersPanics == ParametersType # "TypeSet"

\* What the helper returns for a parameters block that sets the groups gs.
\* Past the assertion each group set assigns dataSourceType and its field of
\* the result in turn, so the type is that of the last group set, and ""
\* when none is.
Parameters(gs) ==
    IF ParametersPanics
    THEN [panics |-> TRUE, type |-> "", groups |-> {}]
    ELSE LET set == {i \in 1..Len(ParameterGroups) : ParameterGroups[i] \in gs}
             last == CHOOSE i \in set : \A j \in set : j <= i
         IN  [panics |-> FALSE,
              type |-> IF set = {} THEN "" ELSE DataSourceTypeOf[ParameterGroups[last]],
              groups |-> gs]

\* the configurations Create is called with: every choice of the optional
\* attributes, and one parameter group
CreateCfgs ==
    [attributes : {RequiredAttributes \cup o : o \in SUBSET OptionalAttributes},
     groups : {{"athena"}}]

\* Lines 540-579, the attributes of cfg that Create copies into the request:
\* there is no statement for name, permission is looked up as "permissions"
\* (line 555), which the schema does not have, so d.Get gives nil for it
CreateCarried(c) ==
    c.attributes \cap
        {"credentials", "parameters", "ssl_properties", "tags", "vpc_connection_properties"}

\* no request made yet
NoOpts == [AwsAccountId |-> <<>>, DataSourceId |-> <<>>]

\* the ID codec is not run on its own
CodecOff == cpc = "off" /\ cSegs = <<>> /\ cId = <<>> /\ cOut = <<>> /\ built = <<>>

Init ==
    /\ pc = "start"
    /\ \/ op \in DataSourceOps \ {"Create"} /\ dId \in Ids /\ cfg = NoCfg
       \/ op = "Create" /\ dId = <<>> /\ cfg \in CreateCfgs
       \/ op \in GroupOps /\ dId \in GroupIds /\ cfg = NoCfg
    /\ sent = <<>>
    /\ descOpts = NoOpts
    /\ invocation = 1
    /\ CodecOff
    /\ attrs = [arn |-> "", id |-> <<>>, aws_account_id |-> <<>>]
    /\ resp = NilResp
    /\ lastResp = NilResp
    /\ lastErr = NoErr
    /\ class = "none"
    /\ err = NoErr
    /\ timedOut = FALSE
    /\ clock = 0
    /\ fetches = 0
    /\ ret = NoErr

(***************************************************************************)
(* Read, lines 591-605: parse the ID, return the format error or call      *)
(* resource.Retry, whose first call of the function comes with no wait.    *)
(***************************************************************************)
ReadStart ==
    /\ \/ pc = "start" /\ op = "Read"
       \/ pc = "read"
    /\ IF ParseID(dId).err # NoErr
       THEN /\ pc' = "done"
            /\ ret' = ParseID(dId).err
            /\ descOpts' = descOpts
       ELSE /\ pc' = "fetch"
            /\ ret' = ret
            /\ descOpts' = [AwsAccountId |-> ParseID(dId).awsAccountId,
                            DataSourceId |-> ParseID(dId).dataSourceId]
    /\ UNCHANGED <<dId, attrs, resp, lastResp, lastErr, class, err, timedOut, clock, fetches>>
    /\ UNCHANGED <<op, sent, invocation, codecVars>>

\* AfterCall with no look at the timeout: a retryable answer always leads to
\* the next backoff
AfterCall_NoDeadline(now, r, e) ==
    LET res == RetryFunc(dId, r, e) IN
    /\ clock' = now
    /\ lastResp' = r
    /\ lastErr' = e
    /\ resp' = RespAfterFetch(resp, r)
    /\ class' = res.class
    /\ err' = res.err
    /\ timedOut' = FALSE
    /\ pc' = IF res.class = "retryable" THEN "wait" ELSE "retried"

\* resource.Retry, after a call came back at time `now` with answer <<r, e>>
AfterCall(now, r, e) ==
    LET res == RetryFunc(dId, r, e) IN
    /\ clock' = now
    /\ lastResp' = r
    /\ lastErr' = e
    /\ resp' = RespAfterFetch(resp, r)
    /\ class' = res.class
    /\ err' = res.err
    /\ IF res.class = "retryable"
       THEN IF now >= Timeout
            THEN pc' = "retried" /\ timedOut' = TRUE
            ELSE pc' = "wait" /\ timedOut' = FALSE
       ELSE pc' = "retried" /\ timedOut' = FALSE

(***************************************************************************)
(* One call of the function: DescribeDataSource answers after d ticks, or  *)
(* is still out when the grace period after the timeout ends.  Such a call *)
(* is given up: resource.Retry returns the error of the call before it, or *)
(* its own timeout error when no call came back.                           *)
(***************************************************************************)
Fetch ==
    /\ pc = "fetch"
    /\ fetches' = fetches + 1
    /\ \/ \E d \in 0..MaxFetchTime :
            /\ clock + d <= Timeout + GracePeriod
            /\ \E fr \in FetchResults(descOpts.DataSourceId) :
                 AfterCall(clock + d, fr[1], fr[2])
       \/ /\ clock' = Timeout + GracePeriod
          /\ pc' = "retried"
          /\ timedOut' = TRUE
          /\ err' = IF err = NoErr THEN ErrTimeout ELSE err
          /\ UNCHANGED <<resp, lastResp, lastErr, class>>
    /\ UNCHANGED <<dId, attrs, ret>>
    /\ UNCHANGED <<op, sent, descOpts, invocation, codecVars>>

(***************************************************************************)
(* The backoff between two calls.  The timeout's timer runs beside it: the *)
(* next call starts if the interval ends by the timeout, and the wait is   *)
(* cut at the timeout otherwise (either, when both fall together).         *)
(***************************************************************************)
\* Backoff with the next call started at once, no time passing
Backoff_NoWait ==
    /\ pc = "wait"
    /\ \/ /\ clock < Timeout
          /\ clock' = clock
          /\ pc' = "fetch"
          /\ timedOut' = FALSE
          /\ lastResp' = NilResp
          /\ lastErr' = NoErr
       \/ /\ clock >= Timeout
          /\ clock' = Timeout
          /\ pc' = "retried"
          /\ timedOut' = TRUE
          /\ UNCHANGED <<lastResp, lastErr>>
    /\ UNCHANGED <<dId, attrs, resp, class, err, fetches, ret>>
    /\ UNCHANGED <<op, sent, descOpts, invocation, codecVars>>

Backoff ==
    /\ pc = "wait"
    /\ \E w \in 1..MaxBackoff :
         \/ /\ clock + w <= Timeout
            /\ clock' = clock + w
            /\ pc' = "fetch"
            /\ timedOut' = FALSE
            \* the next call of the function starts: its resp and err are new
            /\ lastResp' = NilResp
            /\ lastErr' = NoErr
         \/ /\ clock + w >= Timeout
            /\ clock' = Timeout
            /\ pc' = "retried"
            /\ timedOut' = TRUE
            /\ UNCHANGED <<lastResp, lastErr>>
    /\ UNCHANGED <<dId, attrs, resp, class, err, fetches, ret>>
    /\ UNCHANGED <<op, sent, descOpts, invocation, codecVars>>

(***************************************************************************)
(* Read, lines 627-810, after resource.Retry returned err.                 *)
(***************************************************************************)
\* Read as it is not: the ID is dropped after any error of the poll
ReadFinish_ClearsIdOnError ==
    /\ pc = "retried"
    /\ IF err # NoErr
       THEN /\ dId' = <<>>
            /\ ret' = IF IsNotFound(err) THEN NoErr ELSE ErrDescribing(dId, err)
            /\ pc' = "done"
            /\ attrs' = attrs
       ELSE IF resp.nil \/ ~resp.hasDataSource
       THEN /\ pc' = "panic"
            /\ UNCHANGED <<dId, attrs, ret>>
       ELSE /\ attrs' = [arn |-> resp.Arn, id |-> resp.DataSourceId,
                         aws_account_id |-> ParseID(dId).awsAccountId]
            /\ ret' = NoErr
            /\ pc' = "done"
            /\ dId' = dId
    /\ UNCHANGED <<resp, lastResp, lastErr, class, err, timedOut, clock, fetches>>
    /\ UNCHANGED <<op, sent, descOpts, invocation, codecVars>>

ReadFinish ==
    /\ pc = "retried"
    /\ IF IsNotFound(err)
       THEN /\ dId' = <<>>
            /\ ret' = NoErr
            /\ pc' = "done"
            /\ attrs' = attrs
       ELSE IF err # NoErr
       THEN /\ ret' = ErrDescribing(dId, err)
            /\ pc' = "done"
            /\ UNCHANGED <<dId, attrs>>
       ELSE IF resp.nil \/ ~resp.hasDataSource
       THEN \* resp.DataSource.Arn of a nil resp: the process panics
            /\ pc' = "panic"
            /\ UNCHANGED <<dId, attrs, ret>>
       ELSE /\ attrs' = [arn |-> resp.Arn, id |-> resp.DataSourceId,
                         aws_account_id |-> ParseID(dId).awsAccountId]
            /\ ret' = NoErr
            /\ pc' = "done"
            /\ dId' = dId
    /\ UNCHANGED <<resp, lastResp, lastErr, class, err, timedOut, clock, fetches>>
    /\ UNCHANGED <<op, sent, descOpts, invocation, codecVars>>

(***************************************************************************)
(* Create, lines 530-589.  The first helper it calls panics; were it to    *)
(* return, Create would make the one CreateDataSource request, return its  *)
(* error or set the ID and call Read.                                      *)
(***************************************************************************)
\* what the configuration gives for aws_account_id (or the provider's account) and for id
CfgAccounts == {<<"1">>}
CfgIds == {<<"d">>}

Create ==
    /\ pc = "start" /\ op = "Create"
    /\ IF CredentialsPanics \/ Parameters(cfg.groups).panics
       THEN /\ pc' = "panic"
            /\ UNCHANGED <<dId, sent, ret>>
       ELSE \E a \in CfgAccounts, id \in CfgIds, e \in CallAnswers :
              /\ sent' = Append(sent, [api |-> "CreateDataSource", AwsAccountId |-> a,
                                       Id |-> id, err |-> e,
                                       carried |-> CreateCarried(cfg),
                                       Type |-> Parameters(cfg.groups).type])
              /\ IF e # NoErr
                 THEN /\ ret' = ErrWrap("Error creating QuickSight Data Source", <<>>, e)
                      /\ pc' = "done"
                      /\ dId' = dId
                 ELSE /\ dId' = DataSourceIdOf(a, id)
                      /\ pc' = "read"
                      /\ ret' = ret
    /\ UNCHANGED <<attrs, resp, lastResp, lastErr, class, err, timedOut, clock, fetches>>
    /\ UNCHANGED <<op, descOpts, invocation, codecVars>>

(***************************************************************************)
(* Update, lines 813-883, after the ID parsed and the helpers returned:    *)
(* the requests it makes and how it ends, for a change of tags with        *)
(* something to remove (untag) and something to add (tag), and the answers *)
(* eU, eT and eD of UntagResource, TagResource and UpdateDataSource.       *)
(***************************************************************************)
UpdateRun(a, id, untag, tag, eU, eT, eD) ==
    LET s1 == IF untag THEN <<Req("UntagResource", a, id, eU)>> ELSE <<>>
        s2 == s1 \o (IF tag THEN <<Req("TagResource", a, id, eT)>> ELSE <<>>)
        s3 == s2 \o <<Req("UpdateDataSource", a, id, eD)>>
    IN  IF untag /\ eU # NoErr
        THEN [sent |-> s1, clear |-> FALSE, next |-> "done",
              ret |-> ErrWrap("Error deleting QuickSight Data Source tags", <<>>, eU)]
        ELSE IF tag /\ eT # NoErr
        THEN [sent |-> s2, clear |-> FALSE, next |-> "done",
              ret |-> ErrWrap("Error updating QuickSight Data Source tags", <<>>, eT)]
        ELSE IF IsNotFound(eD)
        THEN [sent |-> s3, clear |-> TRUE, next |-> "done", ret |-> NoErr]
        ELSE IF eD # NoErr
        THEN [sent |-> s3, clear |-> FALSE, next |-> "done",
              ret |-> ErrWrap("Error updating QuickSight Data Source", dId, eD)]
        ELSE [sent |-> s3, clear |-> FALSE, next |-> "read", ret |-> NoErr]

\* Update: the format error of the ID, or the panic of the first helper
Update ==
    /\ pc = "start" /\ op = "Update"
    /\ IF ParseID(dId).err # NoErr
       THEN /\ pc' = "done"
            /\ ret' = ParseID(dId).err
            /\ UNCHANGED <<dId, sent>>
       ELSE IF CredentialsPanics
       THEN /\ pc' = "panic"
            /\ UNCHANGED <<dId, sent, ret>>
       ELSE \E untag \in BOOLEAN, tag \in BOOLEAN, eU \in CallAnswers, eT \in CallAnswers,
               eD \in CallAnswers :
              LET run == UpdateRun(ParseID(dId).awsAccountId, ParseID(dId).dataSourceId,
                                   untag, tag, eU, eT, eD) IN
              /\ sent' = sent \o run.sent
              /\ ret' = run.ret
              /\ dId' = IF run.clear THEN <<>> ELSE dId
              /\ pc' = run.next
    /\ UNCHANGED <<attrs, resp, lastResp, lastErr, class, err, timedOut, clock, fetches>>
    /\ UNCHANGED <<op, descOpts, invocation, codecVars>>

(***************************************************************************)
(* Delete, lines 885-906.                                                  *)
(***************************************************************************)
\* Delete making the request again after an error that is not not-found
Delete_RetriesOnce(e) ==
    LET first == Req("DeleteDataSource", ParseID(dId).awsAccountId, ParseID(dId).dataSourceId, e) IN
    IF e = NoErr \/ IsNotFound(e)
    THEN [sent |-> <<first>>, ret |-> NoErr]
    ELSE [sent |-> <<first, first>>, ret |-> ErrWrap("Error deleting QuickSight Data Source", dId, e)]

\* the request Delete makes and what it returns when the answer is e
DeleteRun(e) ==
    [sent |-> <<Req("DeleteDataSource", ParseID(dId).awsAccountId, ParseID(dId).dataSourceId, e)>>,
     ret |-> IF e = NoErr \/ IsNotFound(e) THEN NoErr
             ELSE ErrWrap("Error deleting QuickSight Data Source", dId, e)]

Delete ==
    /\ pc = "start" /\ op = "Delete"
    /\ pc' = "done"
    /\ IF ParseID(dId).err # NoErr
       THEN /\ ret' = ParseID(dId).err
            /\ sent' = sent
       ELSE \E e \in CallAnswers :
              /\ sent' = sent \o DeleteRun(e).sent
              /\ ret' = DeleteRun(e).ret
    /\ UNCHANGED <<dId, attrs, resp, lastResp, lastErr, class, err, timedOut, clock, fetches>>
    /\ UNCHANGED <<op, descOpts, invocation, codecVars>>

(***************************************************************************)
(* The group operations, resource_aws_quicksight_template.go lines         *)
(* 493-579.                                                                *)
(***************************************************************************)
\* GroupNotFound with the not-found answer returned as an error
GroupNotFound_IsError(e) == FALSE

\* isAWSErr(err, quicksight.ErrCodeResourceNotFoundException, "") of the group operations
GroupNotFound(e) == e.code = ErrCodeResourceNotFoundException

GroupRead ==
    /\ \/ pc = "start" /\ op = "GroupRead"
       \/ pc = "groupRead"
    /\ pc' = "done"
    /\ LET p == GroupParseID(dId) IN
       IF p.err # NoErr
       THEN /\ ret' = p.err
            /\ UNCHANGED <<dId, attrs, sent>>
       ELSE \E e \in CallAnswers, a \in Arns :
              /\ sent' = Append(sent, Req("DescribeGroup", p.awsAccountID, <<p.namespace, p.groupName>>, e))
              /\ IF GroupNotFound(e)
                 THEN /\ dId' = <<>>
                      /\ ret' = NoErr
                      /\ attrs' = attrs
                 ELSE IF e # NoErr
                 THEN /\ ret' = ErrWrap("Error describing QuickSight Group", dId, e)
                      /\ UNCHANGED <<dId, attrs>>
                 ELSE /\ attrs' = [arn |-> a, aws_account_id |-> p.awsAccountID,
                                   group_name |-> p.groupName, description |-> "",
                                   namespace |-> p.namespace]
                      /\ ret' = NoErr
                      /\ dId' = dId
    /\ UNCHANGED <<resp, lastResp, lastErr, class, err, timedOut, clock, fetches>>
    /\ UNCHANGED <<op, descOpts, invocation, codecVars>>

GroupUpdate ==
    /\ pc = "start" /\ op = "GroupUpdate"
    /\ LET p == GroupParseID(dId) IN
       IF p.err # NoErr
       THEN /\ pc' = "done"
            /\ ret' = p.err
            /\ UNCHANGED <<dId, sent>>
       ELSE \E e \in CallAnswers :
              /\ sent' = Append(sent, Req("UpdateGroup", p.awsAccountID, <<p.namespace, p.groupName>>, e))
              /\ IF GroupNotFound(e)
                 THEN /\ dId' = <<>>
                      /\ ret' = NoErr
                      /\ pc' = "done"
                 ELSE IF e # NoErr
                 THEN /\ ret' = ErrWrap("Error updating QuickSight Group", dId, e)
                      /\ pc' = "done"
                      /\ dId' = dId
                 ELSE /\ pc' = "groupRead"
                      /\ UNCHANGED <<dId, ret>>
    /\ UNCHANGED <<attrs, resp, lastResp, lastErr, class, err, timedOut, clock, fetches>>
    /\ UNCHANGED <<op, descOpts, invocation, codecVars>>

GroupDelete ==
    /\ pc = "start" /\ op = "GroupDelete"
    /\ pc' = "done"
    /\ LET p == GroupParseID(dId) IN
       IF p.err # NoErr
       THEN /\ ret' = p.err
            /\ sent' = sent
       ELSE \E e \in CallAnswers :
              /\ sent' = Append(sent, Req("DeleteGroup", p.awsAccountID, <<p.namespace, p.groupName>>, e))
              /\ ret' = IF e = NoErr \/ GroupNotFound(e) THEN NoErr
                        ELSE ErrWrap("Error deleting QuickSight Group", dId, e)
    /\ UNCHANGED <<dId, attrs, resp, lastResp, lastErr, class, err, timedOut, clock, fetches>>
    /\ UNCHANGED <<op, descOpts, invocation, codecVars>>

Next ==
    \/ ReadStart \/ Fetch \/ Backoff \/ ReadFinish
    \/ Create \/ Update \/ Delete
    \/ GroupRead \/ GroupUpdate \/ GroupDelete

Spec == Init /\ [][Next]_vars

\* Calls come back or are given up, sleeps end, and Read runs on: no step
\* that can be taken is put off for ever.
LiveSpec == Spec /\ WF_vars(Next)

(***************************************************************************)
(* The framework calls operations on a resource one after the other.  An   *)
(* operation that has returned is followed by the next: the resource data  *)
(* (ID and attributes) are what the last one left, and everything else is  *)
(* a variable of the function called or of resource.Retry, and new.        *)
(***************************************************************************)
\* Reinvoke with the time of the poll kept from the operation before
Reinvoke_KeepsClock ==
    /\ pc = "done" /\ invocation < MaxInvocations
    /\ invocation' = invocation + 1
    /\ pc' = "start"
    /\ op' \in IF op \in DataSourceOps THEN DataSourceOps \ {"Create"} ELSE GroupOps
    /\ resp' = NilResp /\ lastResp' = NilResp /\ lastErr' = NoErr /\ class' = "none"
    /\ err' = NoErr /\ timedOut' = FALSE /\ fetches' = 0 /\ ret' = NoErr
    /\ sent' = <<>> /\ descOpts' = NoOpts
    /\ UNCHANGED <<dId, attrs, clock, codecVars>>

Reinvoke ==
    /\ pc = "done" /\ invocation < MaxInvocations
    /\ invocation' = invocation + 1
    /\ pc' = "start"
    /\ op' \in IF op \in DataSourceOps THEN DataSourceOps \ {"Create"} ELSE GroupOps
    /\ resp' = NilResp /\ lastResp' = NilResp /\ lastErr' = NoErr /\ class' = "none"
    /\ err' = NoErr /\ timedOut' = FALSE /\ clock' = 0 /\ fetches' = 0 /\ ret' = NoErr
    /\ sent' = <<>> /\ descOpts' = NoOpts
    /\ UNCHANGED <<dId, attrs, codecVars>>

RepeatNext == Next \/ Reinvoke

RepeatSpec == Init /\ [][RepeatNext]_vars

(***************************************************************************)
(* The ID codec on its own: segments are joined into an ID, or an ID       *)
(* string is taken as it is, and the three parse functions are applied to  *)
(* it.  No operation of a resource runs.                                   *)
(***************************************************************************)
Letters == {"a", "b"}
Chars == Letters \cup {"/"}

\* the strings of at most MaxIdLen characters
IdStrings == UNION {[1..k -> Chars] : k \in 0..MaxIdLen}

\* the segments a resource is named by: not empty, and without "/"
Segments == UNION {[1..k -> Letters] : k \in 1..MaxSegLen}

SegmentTuples == (Segments \X Segments) \cup (Segments \X Segments \X Segments)

HandlersOff ==
    /\ pc = "off" /\ op = "none" /\ dId = <<>>
    /\ attrs = [arn |-> "", id |-> <<>>, aws_account_id |-> <<>>]
    /\ resp = NilResp /\ lastResp = NilResp /\ lastErr = NoErr /\ class = "none"
    /\ err = NoErr /\ timedOut = FALSE /\ clock = 0 /\ fetches = 0 /\ ret = NoErr
    /\ sent = <<>> /\ descOpts = NoOpts /\ invocation = 0

CodecInit ==
    /\ HandlersOff
    /\ cOut = <<>> /\ cfg = NoCfg /\ built = <<>>
    /\ \/ cpc = "segs" /\ cSegs \in SegmentTuples /\ cId = <<>>
       \/ cpc = "id" /\ cSegs = <<>> /\ cId \in IdStrings

\* d.SetId(fmt.Sprintf(...)) of the segments
Encode ==
    /\ cpc = "segs"
    /\ cId' = IF Len(cSegs) = 2 THEN DataSourceIdOf(cSegs[1], cSegs[2])
              ELSE GroupIdOf(cSegs[1], cSegs[2], cSegs[3])
    /\ cpc' = "id"
    /\ UNCHANGED <<cSegs, cOut, cfg, built>>
    /\ UNCHANGED handlerVars

\* the parse functions applied to the ID
Decode ==
    /\ cpc = "id"
    /\ cOut' = [dataSource |-> ParseID(cId), group |-> GroupParseID(cId),
                template |-> TemplateParseID(cId)]
    /\ cpc' = "decoded"
    /\ UNCHANGED <<cSegs, cId, cfg, built>>
    /\ UNCHANGED handlerVars

CodecNext == Encode \/ Decode

CodecSpec == CodecInit /\ [][CodecNext]_vars

(***************************************************************************)
(* The ID a Create stores and the parse of it by the Read that Create      *)
(* calls next, on their own, for the three resources:                      *)
(*   data source  d.SetId at line 586, ParseID at line 594;                *)
(*   template     d.SetId at line 216 of the template file, and at line    *)
(*                224 resourceAwsQuickSightGroupParseID;                   *)
(*   group        d.SetId at line 488, GroupParseID at line 496.           *)
(* cSegs holds the values the ID is made of, cpc the resource and the step.*)
(***************************************************************************)
\* "id" of the data source is a required string with no validation (69-73)
CfgIdStrings == UNION {[1..k -> Chars] : k \in 0..MaxCfgIdLen}

TemplateIdOf(awsAccountId, templateId) == awsAccountId \o <<"/">> \o templateId

\* the decoder the template Read calls
TemplateReadParseID(id) == GroupParseID(id)

StoreInit ==
    /\ HandlersOff
    /\ cId = <<>> /\ cOut = <<>> /\ cfg = NoCfg /\ built = <<>>
    /\ \/ cpc = <<"dataSource", "create">> /\ cSegs \in Segments \X CfgIdStrings
       \/ cpc = <<"template", "create">> /\ cSegs \in Segments \X Segments
       \/ cpc = <<"group", "create">> /\ cSegs \in Segments \X Segments \X Segments

\* d.SetId(fmt.Sprintf(...)) of Create
SetId ==
    /\ cpc[2] = "create"
    /\ cId' = CASE cpc[1] = "dataSource" -> DataSourceIdOf(cSegs[1], cSegs[2])
                 [] cpc[1] = "template" -> TemplateIdOf(cSegs[1], cSegs[2])
                 [] cpc[1] = "group" -> GroupIdOf(cSegs[1], cSegs[2], cSegs[3])
    /\ cpc' = <<cpc[1], "stored">>
    /\ UNCHANGED <<cSegs, cOut, cfg, built>>
    /\ UNCHANGED handlerVars

\* the first statement of the Read that Create returns with
ReadParseID ==
    /\ cpc[2] = "stored"
    /\ cOut' = CASE cpc[1] = "dataSource" -> ParseID(cId)
                  [] cpc[1] = "template" -> TemplateReadParseID(cId)
                  [] cpc[1] = "group" -> GroupParseID(cId)
    /\ cpc' = <<cpc[1], "read">>
    /\ UNCHANGED <<cSegs, cId, cfg, built>>
    /\ UNCHANGED handlerVars

StoreNext == SetId \/ ReadParseID

StoreSpec == StoreInit /\ [][StoreNext]_vars

(***************************************************************************)
(* The parameters helper on its own, for every parameters block that sets  *)
(* at most MaxGroups groups.                                               *)
(***************************************************************************)
ParamsInit ==
    /\ HandlersOff
    /\ cpc = "params" /\ cSegs = <<>> /\ cId = <<>> /\ cOut = <<>>
    /\ cfg \in [attributes : {RequiredAttributes},
                 groups : {gs \in SUBSET {ParameterGroups[i] : i \in 1..Len(ParameterGroups)} :
                             Cardinality(gs) <= MaxGroups}]
    /\ built = <<>>

\* one call of the helper
InferParameters ==
    /\ cpc = "params"
    /\ built' = Parameters(cfg.groups)
    /\ cpc' = "built"
    /\ UNCHANGED <<cSegs, cId, cOut, cfg>>
    /\ UNCHANGED handlerVars

ParamsNext == InferParameters

ParamsSpec == ParamsInit /\ [][ParamsNext]_vars

(***************************************************************************)
(* The function of lines 605-625 on its own, for every pair of a response  *)
(* and an error that the types of conn.DescribeDataSource admit: a         *)
(* response with a data source may come with an error, and a status may be *)
(* none of the seven the function names.                                   *)
(***************************************************************************)
ClassifyStatuses == Statuses \cup {""}

ClassifyResponses ==
    {NilResp, EmptyResp}
    \cup {DataSourceResp(s, a, <<"d">>) : s \in ClassifyStatuses, a \in Arns}

ClassifyInit ==
    /\ pc = "classify" /\ op = "Read" /\ dId = <<"1", "/", "d">>
    /\ lastResp \in ClassifyResponses
    /\ lastErr \in CallAnswers
    /\ attrs = [arn |-> "", id |-> <<>>, aws_account_id |-> <<>>]
    /\ resp = NilResp /\ class = "none" /\ err = NoErr
    /\ timedOut = FALSE /\ clock = 0 /\ fetches = 0 /\ ret = NoErr
    /\ sent = <<>> /\ descOpts = NoOpts /\ invocation = 0
    /\ CodecOff /\ cfg = NoCfg

\* one call of the function: what it returns for the answer (lastResp, lastErr)
Classify ==
    /\ pc = "classify"
    /\ LET c == RetryFunc(dId, lastResp, lastErr)
       IN  class' = c.class /\ err' = c.err
    /\ pc' = "classified"
    /\ UNCHANGED <<dId, attrs, resp, lastResp, lastErr, timedOut, clock, fetches, ret>>
    /\ UNCHANGED <<op, sent, descOpts, invocation, codecVars>>

ClassifyNext == Classify

ClassifySpec == ClassifyInit /\ [][ClassifyNext]_vars

(***************************************************************************)
(* What the last call that came back reported.                             *)
(***************************************************************************)
ObservedInProgress == lastResp.hasDataSource /\ lastResp.Status \in InProgressStatuses
ObservedFailed == lastResp.hasDataSource /\ lastResp.Status \in FailedStatuses
ObservedStable == lastResp.hasDataSource /\ lastResp.Status \in StableStatuses /\ lastErr = NoErr
ObservedNotFound == lastErr.code = ErrCodeResourceNotFoundException
ObservedOtherError == lastErr # NoErr /\ lastErr.code # ErrCodeResourceNotFoundException

\* resource.Retry was called and has returned
PollEnded == pc \in {"retried", "done", "panic"} /\ fetches > 0

(***************************************************************************)
(* C2.  A fetch that reports creation-in-progress or update-in-progress    *)
(* before the timeout does not end the poll: the function returns a        *)
(* retryable error and the poller waits; the wait ends in the next fetch,  *)
(* or in the timeout when the deadline falls in it.                        *)
(***************************************************************************)
C2_InProgressIsRetried ==
    [][ /\ (pc = "fetch" /\ fetches' = fetches + 1 /\ ObservedInProgress' /\ clock' < Timeout)
            => (pc' = "wait" /\ class' = "retryable")
        /\ (pc = "wait" /\ pc' # "wait")
            => \/ pc' = "fetch" /\ clock' > clock /\ clock' <= Timeout /\ fetches' = fetches
               \/ pc' = "retried" /\ timedOut' /\ clock' = Timeout
        /\ (pc = "fetch" /\ class = "retryable" /\ pc' # "fetch") => fetches' = fetches + 1
      ]_vars

C2_Witness ==
    pc = "wait" /\ fetches >= 2 /\ ObservedInProgress /\ lastResp.Status = "UPDATE_IN_PROGRESS"

(***************************************************************************)
(* C3.  A fetch that reports creation-failed or update-failed ends the     *)
(* poll on that fetch, whatever came before: no fetch follows, and Read    *)
(* returns the error that names d.Id() and the failed status.              *)
(***************************************************************************)
C3_FailedStatusIsTerminal ==
    [][ /\ ObservedFailed' => pc' \in {"retried", "done"}
        /\ ObservedFailed => fetches' = fetches
        /\ (ObservedFailed' /\ pc' = "done")
            => ret' = ErrDescribing(dId', ErrFailed(dId', lastResp'.Status))
      ]_vars

C3_Witness ==
    pc = "done" /\ ObservedFailed /\ fetches >= 2 /\ lastResp.Status = "UPDATE_FAILED"

(***************************************************************************)
(* C4.  A fetch that returns resource-not-found ends the poll on that      *)
(* fetch, after any number of in-progress answers: no fetch follows, and   *)
(* Read sets the ID to the empty string and returns no error.              *)
(***************************************************************************)
C4_NotFoundClearsId ==
    [][ /\ ObservedNotFound' => pc' \in {"retried", "done"}
        /\ ObservedNotFound => fetches' = fetches
        /\ (ObservedNotFound' /\ pc' = "done") => (dId' = <<>> /\ ret' = NoErr)
      ]_vars

C4_Witness ==
    pc = "done" /\ ObservedNotFound /\ fetches >= 2 /\ dId = <<>> /\ ret = NoErr

(***************************************************************************)
(* C5.  A fetch that returns an error other than not-found ends the poll   *)
(* on that fetch: no fetch follows, and Read returns an error that carries *)
(* the fetch error.                                                        *)
(***************************************************************************)
C5_OtherErrorIsTerminal ==
    [][ /\ ObservedOtherError' => (pc' \in {"retried", "done"} /\ err' = lastErr')
        /\ ObservedOtherError => fetches' = fetches
        /\ (ObservedOtherError' /\ pc' = "done") => ret' = ErrDescribing(dId', lastErr')
      ]_vars

C5_Witness ==
    /\ pc = "done" /\ ObservedOtherError /\ fetches >= 2
    /\ ret = ErrDescribing(dId, AwsErr("InternalFailureException"))

(***************************************************************************)
(* C6.  When the poll ends in success, the response the code after the     *)
(* loop works with is the response of the last fetch, and the arn and id   *)
(* written to the state are those of that response.                        *)
(***************************************************************************)
C6_LastResponseWritten ==
    (PollEnded /\ err = NoErr /\ class = "success")
        => /\ resp = lastResp
           /\ pc # "retried"
                => (pc = "done" /\ attrs.arn = lastResp.Arn /\ attrs.id = lastResp.DataSourceId)

(***************************************************************************)
(* C7.  When the first fetch reports a stable status and no error, the     *)
(* poll ends in success on it, and that fetch stays the only one.          *)
(***************************************************************************)
C7_FirstStableOneFetch ==
    [][ /\ (fetches' = 1 /\ ObservedStable')
            => (pc' \in {"retried", "done", "panic"} /\ err' = NoErr /\ class' = "success" /\ ~timedOut')
        /\ pc \in {"retried", "done", "panic"} => fetches' = fetches
      ]_vars

C7_Witness ==
    pc = "retried" /\ fetches = 1 /\ ObservedStable /\ err = NoErr /\ lastResp.Status = "UPDATE_SUCCESSFUL"

(***************************************************************************)
(* C8.  As the spec has it: a poll that ends by timeout ends no later than *)
(* one backoff interval after the 5 minutes.                               *)
(***************************************************************************)
C8_OvershootAtMostOneBackoff ==
    (PollEnded /\ timedOut) => clock <= Timeout + MaxBackoff

(***************************************************************************)
(* C8, amended.  The poll always ends.  While it polls the 5 minutes have  *)
(* not passed; a poll whose last answer is in-progress has ended by        *)
(* timeout; and a poll that ends by timeout ends at the 5 minutes or, when *)
(* a call is in flight then, within the grace period after them.           *)
(***************************************************************************)
C8_TerminatesWithinGrace ==
    /\ [](pc \in {"fetch", "wait"} => clock <= Timeout)
    /\ []((PollEnded /\ ObservedInProgress) => timedOut)
    /\ []((PollEnded /\ timedOut) => (clock >= Timeout /\ clock <= Timeout + GracePeriod /\ err # NoErr))
    /\ (pc \in {"fetch", "wait"}) ~> PollEnded

C8_Witness ==
    /\ PollEnded /\ timedOut /\ ObservedInProgress
    /\ clock = Timeout + GracePeriod /\ fetches > Timeout \div (MaxBackoff + MaxFetchTime)

(***************************************************************************)
(* C9.  The error Read returns after a timeout is not an error it returns  *)
(* after a creation-failed or update-failed answer.                        *)
(***************************************************************************)
FailedReturns == {ErrDescribing(i, ErrFailed(i, s)) : i \in Ids, s \in FailedStatuses}

C9_TimeoutDistinctFromFailed ==
    /\ (pc = "done" /\ PollEnded /\ timedOut) => (ret # NoErr /\ ret \notin FailedReturns)
    /\ (pc = "done" /\ ObservedFailed) => ret \in FailedReturns

C9_Witness ==
    /\ pc = "done" /\ timedOut /\ ObservedInProgress
    /\ ret = ErrDescribing(dId, ErrInProgress(dId, "CREATION_IN_PROGRESS"))

(***************************************************************************)
(* C10.  The poller is in one of Polling, Success, Failed, NotFound and    *)
(* TimedOut, by what resource.Retry returned; the state agrees with what   *)
(* the last fetch reported; Polling is entered from the start and from     *)
(* Polling only; in the other four no fetch is made and the state stays;   *)
(* and every poll leaves Polling.                                          *)
(***************************************************************************)
PollerState ==
    IF pc \in {"fetch", "wait"} THEN "Polling"
    ELSE IF ~PollEnded THEN "NotStarted"
    ELSE IF timedOut THEN "TimedOut"
    ELSE IF err = NoErr THEN "Success"
    ELSE IF IsNotFound(err) THEN "NotFound"
    ELSE "Failed"

TerminalStates == {"Success", "Failed", "NotFound", "TimedOut"}

C10_PollerStateMachine ==
    /\ [][ /\ PollerState' = "Polling" => PollerState \in {"Polling", "NotStarted"}
           /\ pc' = "wait" => ObservedInProgress'
           /\ PollerState' = "Success" => ObservedStable'
           /\ PollerState' = "Failed" => (ObservedFailed' \/ ObservedOtherError')
           /\ PollerState' = "NotFound" => ObservedNotFound'
           /\ PollerState' = "TimedOut"
                => ~(ObservedStable' \/ ObservedFailed' \/ ObservedNotFound' \/ ObservedOtherError')
           /\ PollerState \in TerminalStates => (PollerState' = PollerState /\ fetches' = fetches)
         ]_vars
    /\ (PollerState = "Polling") ~> (PollerState \in TerminalStates)

C10_Witness ==
    pc = "done" /\ PollerState = "NotFound" /\ fetches >= 3

(***************************************************************************)
(* C11.  Only an in-progress answer is retried: a second or later fetch    *)
(* starts only from the wait that follows an answer the function returned  *)
(* as retryable, and only creation-in-progress and update-in-progress are  *)
(* returned so; after a stable status, a failed status, not-found or       *)
(* another error no wait and no fetch follows.                             *)
(***************************************************************************)
C11_OnlyInProgressRetried ==
    [][ /\ (pc' = "fetch" /\ fetches >= 1)
            => (pc = "wait" /\ ObservedInProgress /\ class = "retryable")
        /\ pc' = "wait" => (ObservedInProgress' /\ class' = "retryable")
        /\ (fetches' = fetches + 1 /\ fetches >= 1)
            => (class = "retryable" /\ err = ErrInProgress(dId, err.detail)
                /\ err.detail \in InProgressStatuses)
        /\ (ObservedStable \/ ObservedFailed \/ ObservedNotFound \/ ObservedOtherError)
            => (pc' \notin {"fetch", "wait"} /\ fetches' = fetches)
      ]_vars

C11_Witness ==
    /\ pc = "retried" /\ fetches >= 3 /\ lastResp.hasDataSource /\ lastResp.Status = "DELETED"
    /\ class = "success"

(***************************************************************************)
(* C12.  Round trip of the ID codec: for every pair and every triple of    *)
(* segments, each not empty and without "/", parsing the string made by    *)
(* joining them with "/" gives no error and gives back the segments:       *)
(* ParseID for a pair, GroupParseID and TemplateParseID for a triple.      *)
(***************************************************************************)
C12_RoundTrip ==
    (cpc = "decoded" /\ cSegs # <<>>)
        => /\ Len(cSegs) = 2
                => cOut.dataSource = [awsAccountId |-> cSegs[1], dataSourceId |-> cSegs[2],
                                      err |-> NoErr]
           /\ Len(cSegs) = 3
                => /\ cOut.group = [awsAccountID |-> cSegs[1], namespace |-> cSegs[2],
                                    groupName |-> cSegs[3], err |-> NoErr]
                   /\ cOut.template = cOut.group

C12_Witness ==
    /\ cpc = "decoded" /\ cSegs = << <<"a", "b">>, <<"b">>, <<"b", "a">> >>
    /\ cId = <<"a", "b", "/", "b", "/", "b", "a">>
    /\ cOut.group.groupName = <<"b", "a">>

(***************************************************************************)
(* The "/"-separated segments of a string: one more than it has "/".       *)
(***************************************************************************)
RECURSIVE SplitAll(_)
SplitAll(s) ==
    IF FirstSlash(s) = 0 THEN <<s>>
    ELSE <<SubSeq(s, 1, FirstSlash(s) - 1)>> \o SplitAll(SubSeq(s, FirstSlash(s) + 1, Len(s)))

\* the string after the n-th "/" of s (s has at least n of them)
RECURSIVE AfterSlashes(_, _)
AfterSlashes(s, n) ==
    IF n = 0 THEN s ELSE AfterSlashes(SubSeq(s, FirstSlash(s) + 1, Len(s)), n - 1)

\* s has a number of segments other than n, or an empty segment
WrongCountOrEmpty(s, n) ==
    Len(SplitAll(s)) # n \/ \E i \in 1..Len(SplitAll(s)) : SplitAll(s)[i] = <<>>

\* s has fewer than n segments, or one of its first n - 1 segments is empty,
\* or nothing comes after them
TooFewOrEmpty(s, n) ==
    \/ Len(SplitAll(s)) < n
    \/ \E i \in 1..(n - 1) : SplitAll(s)[i] = <<>>
    \/ AfterSlashes(s, n - 1) = <<>>

(***************************************************************************)
(* C13.  As the spec has it: parsing fails with the format error for every *)
(* ID whose number of "/"-separated segments is not the expected one (2    *)
(* for ParseID, 3 for GroupParseID and TemplateParseID), too few or too    *)
(* many, or that has an empty segment.                                     *)
(***************************************************************************)
C13_WrongCountOrEmptyFails ==
    cpc = "decoded"
        => /\ WrongCountOrEmpty(cId, 2) => cOut.dataSource.err = ErrFormat(cId)
           /\ WrongCountOrEmpty(cId, 3) => cOut.group.err = ErrGroupFormat(cId)
           /\ WrongCountOrEmpty(cId, 3) => cOut.template.err = ErrGroupFormat(cId)

(***************************************************************************)
(* C13, amended.  Parsing fails with the format error, which names the ID, *)
(* exactly for the IDs that have fewer segments than expected, or an empty *)
(* segment among the first expected - 1, or nothing after these.  Every    *)
(* other ID parses: the last component is all that follows the first       *)
(* expected - 1 segments, any "/" in it included.                          *)
(***************************************************************************)
C13_TooFewOrEmptyFails ==
    cpc = "decoded"
        => /\ cOut.dataSource =
                IF TooFewOrEmpty(cId, 2)
                THEN [awsAccountId |-> <<>>, dataSourceId |-> <<>>, err |-> ErrFormat(cId)]
                ELSE [awsAccountId |-> SplitAll(cId)[1], dataSourceId |-> AfterSlashes(cId, 1),
                      err |-> NoErr]
           /\ cOut.group =
                IF TooFewOrEmpty(cId, 3)
                THEN [awsAccountID |-> <<>>, namespace |-> <<>>, groupName |-> <<>>,
                      err |-> ErrGroupFormat(cId)]
                ELSE [awsAccountID |-> SplitAll(cId)[1], namespace |-> SplitAll(cId)[2],
                      groupName |-> AfterSlashes(cId, 2), err |-> NoErr]
           /\ cOut.template = cOut.group

C13_Witness ==
    /\ cpc = "decoded" /\ cId = <<"a", "/", "b">>
    /\ cOut.dataSource.err = NoErr
    /\ cOut.group.err = ErrGroupFormat(cId) /\ cOut.template.err = ErrGroupFormat(cId)

(***************************************************************************)
(* C14.  Read, Update and Delete of the data source, called with an ID     *)
(* that does not parse (fewer than two segments, or an empty account id or *)
(* data source id), return the format error in their first step: no        *)
(* request is made, no fetch, and the ID and the attributes stay as they   *)
(* are; the operation has then returned and does nothing more.             *)
(***************************************************************************)
C14_MalformedIdIsFatal ==
    [][ /\ (pc = "start" /\ op \in {"Read", "Update", "Delete"} /\ TooFewOrEmpty(dId, 2))
            => /\ pc' = "done" /\ ret' = ErrFormat(dId)
               /\ sent' = <<>> /\ fetches' = 0 /\ descOpts' = NoOpts
               /\ dId' = dId /\ attrs' = attrs
        /\ pc = "done" => UNCHANGED vars
      ]_vars

C14_Witness ==
    /\ pc = "done" /\ op = "Update" /\ dId = <<"1", "/">> /\ ret = ErrFormat(dId)
    /\ sent = <<>> /\ fetches = 0

(***************************************************************************)
(* C15.  A request answered with resource-not-found is the last one of the *)
(* operation, and the operation returns no error; unless the request is a  *)
(* delete, the ID is then the empty string.  So for the describe of the    *)
(* poll and for every request of the log, of the data source and of the    *)
(* group.                                                                  *)
(***************************************************************************)
DeleteApis == {"DeleteDataSource", "DeleteGroup"}

C16_NoRetryOutsidePoller ==
    /\ \A i \in 1..Len(sent) : \A j \in 1..Len(sent) :
         sent[i].api = sent[j].api => i = j
    /\ \A i \in 1..Len(sent) :
         (sent[i].err # NoErr /\ sent[i].err.code # ErrCodeResourceNotFoundException)
            => /\ i = Len(sent) /\ pc = "done" /\ fetches = 0
               /\ ret # NoErr /\ ret.cause = sent[i].err

C16_Witness ==
    /\ pc = "done" /\ op = "Delete" /\ dId = <<"1", "/", "d">>
    /\ sent = <<Req("DeleteDataSource", <<"1">>, <<"d">>, AwsErr("InternalFailureException"))>>
    /\ ret = ErrWrap("Error deleting QuickSight Data Source", dId, sent[1].err)

(***************************************************************************)
(* C17.  The fetches of a poll come one after the other: a step makes at   *)
(* most one fetch, a fetch is made only from the position "fetch" and      *)
(* leaves it, with the call back or given up, and the position is entered  *)
(* again only from a wait, in which time has passed.                       *)
(***************************************************************************)
C17_FetchesSequential ==
    [][ /\ fetches' \in {fetches, fetches + 1}
        /\ fetches' = fetches + 1 => (pc = "fetch" /\ pc' \in {"wait", "retried"})
        /\ (pc' = "fetch" /\ fetches' >= 1)
            => (pc = "wait" /\ clock' > clock /\ fetches' = fetches)
      ]_vars

C17_Witness ==
    pc = "fetch" /\ fetches = 2 /\ clock = 2 /\ class = "retryable"

(***************************************************************************)
(* C19.  While Read polls, no request other than the describe is made, the *)
(* describe is for the account id and the data source id parsed from the   *)
(* ID, and the ID and the attributes are not written; and an operation     *)
(* starts with nothing of the poll before it: no response, no error, no    *)
(* count of fetches, no time passed.                                       *)
(***************************************************************************)
C19_PollerFrame ==
    [][ /\ pc \in {"fetch", "wait"}
            => /\ sent' = sent /\ descOpts' = descOpts
               /\ dId' = dId /\ attrs' = attrs /\ ret' = ret
        /\ pc' \in {"fetch", "wait", "retried"}
            => /\ ~TooFewOrEmpty(dId', 2)
               /\ descOpts' = [AwsAccountId |-> SplitAll(dId')[1],
                               DataSourceId |-> AfterSlashes(dId', 1)]
               /\ lastResp'.hasDataSource => lastResp'.DataSourceId = descOpts'.DataSourceId
        /\ pc' = "start"
            => /\ resp' = NilResp /\ lastResp' = NilResp /\ lastErr' = NoErr
               /\ class' = "none" /\ err' = NoErr /\ timedOut' = FALSE
               /\ clock' = 0 /\ fetches' = 0 /\ descOpts' = NoOpts
      ]_vars

C19_Witness ==
    /\ invocation = 2 /\ op = "Read" /\ pc = "wait" /\ fetches = 1 /\ clock = 0
    /\ dId = <<"1", "/", "d">>

(***************************************************************************)
(* C25.  Read changes the ID only after a not-found answer, and then to    *)
(* the empty ID: a step of Read that ends a poll which timed out, saw a    *)
(* failed status or got another error leaves the ID and the attributes as  *)
(* they were, and so does every step of Read before it.                    *)
(***************************************************************************)
C25_IdChangedOnlyOnNotFound ==
    [][ op = "Read" =>
          /\ dId' # dId
                => pc = "retried" /\ ObservedNotFound /\ ~timedOut /\ dId' = <<>>
          /\ (pc = "retried" /\ (timedOut \/ ObservedFailed \/ ObservedOtherError))
                => dId' = dId /\ attrs' = attrs /\ ret' # NoErr
          /\ (pc # "retried") => dId' = dId /\ attrs' = attrs
      ]_vars

C25_Witness ==
    /\ op = "Read" /\ pc = "done" /\ timedOut /\ ret # NoErr
    /\ dId = <<"1", "/", "d">> /\ attrs.arn = ""

(***************************************************************************)
(* C24.  The function looks at the status of the response before the error *)
(* of the call.  For an answer that carries an error: with a data source   *)
(* in an in-progress status the call is retried, with one in a failed      *)
(* status the failed-status error is returned and not the error of the     *)
(* call, and the error of the call is returned exactly when the response   *)
(* has no data source or its status is neither in progress nor failed.     *)
(***************************************************************************)
C24_StatusBeforeError ==
    (pc = "classified" /\ lastErr # NoErr) =>
        /\ ObservedInProgress
              => class = "retryable" /\ err = ErrInProgress(dId, lastResp.Status)
        /\ ObservedFailed
              => class = "nonretryable" /\ err = ErrFailed(dId, lastResp.Status)
        /\ (~ObservedInProgress /\ ~ObservedFailed)
              => class = "nonretryable" /\ err = lastErr
        /\ err = lastErr => ~ObservedInProgress /\ ~ObservedFailed

C24_Witness ==
    /\ pc = "classified" /\ lastErr = AwsErr("InternalFailureException")
    /\ lastResp = DataSourceResp("UPDATE_IN_PROGRESS", "arn1", <<"d">>)
    /\ class = "retryable"

(***************************************************************************)
(* C23.  The ID a Create stored is accepted by the Read it calls next: the *)
(* parse gives no error, and the ID has as many "/"-separated segments as  *)
(* the decoder expects (two for the data source, three for the template    *)
(* and the group), none of them empty.                                     *)
(***************************************************************************)
ExpectedSegments == IF cpc[1] = "dataSource" THEN 2 ELSE 3

C23_StoredIdAccepted ==
    cpc[2] = "read"
        => /\ cOut.err = NoErr
           /\ Len(SplitAll(cId)) = ExpectedSegments
           /\ \A i \in 1..Len(SplitAll(cId)) : SplitAll(cId)[i] # <<>>

(***************************************************************************)
(* C21.  Once Create has run there is a CreateDataSource request, and it   *)
(* carries every attribute the configuration sets: name, parameters, and   *)
(* whichever of credentials, permission, ssl_properties, tags and          *)
(* vpc_connection_properties are set.                                      *)
(***************************************************************************)
C21_EveryAttributeInRequest ==
    (op = "Create" /\ pc # "start")
        => \E i \in 1..Len(sent) :
              /\ sent[i].api = "CreateDataSource"
              /\ cfg.attributes \subseteq sent[i].carried

(***************************************************************************)
(* C27.  The parameters helper returns, for a block that sets exactly one  *)
(* group, the type constant of that group and parameters holding that      *)
(* group and no other; and for a configured block the type it returns is   *)
(* never the empty string.                                                 *)
(***************************************************************************)
C27_TypeInferredFromGroup ==
    cpc = "built"
        => /\ ~built.panics
           /\ \A g \in cfg.groups :
                 cfg.groups = {g} => built.type = DataSourceTypeOf[g] /\ built.groups = {g}
           /\ "parameters" \in cfg.attributes => built.type # ""

====
